---- MODULE Spec2Model ----
(***************************************************************************)
(* State-machine model of the image studio's client-side core:             *)
(*   - App.tsx: the active tab, the preset store and the activity log      *)
(*   - components/EditTab.tsx: the item registry (uploaded images, their   *)
(*     object URLs and the selection) and the batch job runner             *)
(*   - components/PresetTab.tsx: the preset form                           *)
(* Every action is one event handler (or one resumption of an async        *)
(* handler) together with the React commit that follows it: the re-render  *)
(* and the effect cleanups the state change triggers.                      *)
(***************************************************************************)
EXTENDS Integers, Sequences, FiniteSets, TLC

VARIABLES
    activeTab,         \* App.tsx:39        which tab (component) is mounted
    presets,           \* App.tsx:40        preset store, newest first
    history,           \* App.tsx:58        activity log, newest first
    prompt,            \* EditTab.tsx:32    instruction text of the edit view
    uploadedImages,    \* EditTab.tsx:33    item registry, insertion order
    selectedImageIds,  \* EditTab.tsx:34    JS Set: insertion-ordered, no repeats
    editResults,       \* EditTab.tsx:35    JS Map id -> EditResult, insertion-ordered
    loading,           \* EditTab.tsx:36    running flag
    progressMessage,   \* EditTab.tsx:37
    error,             \* EditTab.tsx:38
    revoked,           \* per object URL: how often URL.revokeObjectURL was called on it
    nextId,            \* next value crypto.randomUUID() hands to an uploaded image
    nextUrl,           \* next handle URL.createObjectURL() returns
    nextRecordId,      \* next value crypto.randomUUID() hands to a history item
    runs,              \* the handleSubmit invocations that have not returned yet
    presetError,       \* PresetTab.tsx:14  error text of the preset form
    newPreset,         \* PresetTab.tsx:13  title and prompt typed into the preset form
    storage,           \* localStorage: the texts under the presets and the history key
    writable,          \* whether localStorage.setItem succeeds (FALSE: it throws)
    vision,            \* VisionTab:14-19  the state of the analysis view
    visionRuns         \* the VisionTab handleSubmit invocations that have not returned yet

vars == <<activeTab, presets, history, prompt, uploadedImages, selectedImageIds,
          editResults, loading, progressMessage, error, revoked, nextId, nextUrl,
          nextRecordId, runs, presetError, newPreset, storage, writable,
          vision, visionRuns>>

storeVars    == <<storage, writable>>
visionVars   == <<vision, visionRuns>>
appVars      == <<presets, history, nextRecordId, presetError, newPreset,
                  storeVars, visionVars>>
registryVars == <<uploadedImages, selectedImageIds, revoked, nextId, nextUrl>>
runnerVars   == <<prompt, editResults, loading, progressMessage, error, runs>>

----------------------------------------------------------------------------
(* Bounds of the model *)

MaxIds == 3          \* images uploaded over a whole behaviour
MaxFiles == 2        \* files handed over by one drop / one file dialog
MaxRevoke == 3       \* revokeObjectURL calls counted per handle
MaxLen == 2          \* characters of a typed text
MaxPresets == 6      \* entries the preset store may grow to
MaxRuns == 2         \* handleSubmit invocations in progress at once
MaxHistory == 2      \* records the activity log may grow to

----------------------------------------------------------------------------
(* Generic helpers *)

Range(s) == {s[i] : i \in DOMAIN s}

SeqsUpTo(S, n) == UNION {[1..k -> S] : k \in 0..n}

\* JS Set as its insertion-ordered sequence of distinct members
SetHas(set, x) == \E i \in DOMAIN set : set[i] = x
SetAdd(set, x) == IF SetHas(set, x) THEN set ELSE Append(set, x)
SetDelete(set, x) == SelectSeq(set, LAMBDA y : y # x)
SetSize(set) == Len(set)

----------------------------------------------------------------------------
(* App.tsx: tabs *)

Tabs == {"vision", "generate", "edit", "presets", "history"}

----------------------------------------------------------------------------
(* EditTab.tsx: the item registry *)

FileNames == {"a.png", "b.png"}
FileSizes == {1, 2}
\* a browser File, as far as the registry reads it: name and size
Files == {[name |-> "a.png", size |-> 1], [name |-> "a.png", size |-> 2],
          [name |-> "b.png", size |-> 1]}
FileLists == SeqsUpTo(Files, MaxFiles) \ {<<>>}

Ids == 1..MaxIds
Urls == 1..MaxIds

ImageIds(images) == {images[i].id : i \in DOMAIN images}
ImageUrls(images) == {images[i].url : i \in DOMAIN images}

\* a release that does nothing
RevokeObjectURL_Nothing(rev, url) == rev

\* URL.revokeObjectURL(url), counted
RevokeObjectURL(rev, url) == [rev EXCEPT ![url] = @ + 1]

\* images.forEach(img => URL.revokeObjectURL(img.url))
RECURSIVE RevokeEach(_, _)
RevokeEach(rev, images) ==
    IF images = <<>> THEN rev
    ELSE RevokeEach(RevokeObjectURL(rev, Head(images).url), Tail(images))

\* The cleanup of the effect that depends on [uploadedImages]: it closes over
\* the array of the render that installed it and runs when a later render
\* holds another array, and when the component unmounts.
EffectCleanup(rev, capturedImages) == RevokeEach(rev, capturedImages)

\* the counters stay within the counted range
RevokeBounded(rev) == \A u \in DOMAIN rev : rev[u] <= MaxRevoke

\* file => !uploadedImages.some(img => same name && same size)
IsNewFile(images, file) ==
    ~ \E i \in DOMAIN images :
        images[i].file.name = file.name /\ images[i].file.size = file.size

\* files.filter(...).map(file => ({id, file, url}))
NewImages(images, files, id0, url0) ==
    LET fresh == SelectSeq(files, LAMBDA f : IsNewFile(images, f))
    IN  [k \in 1..Len(fresh) |->
            [id |-> id0 + k - 1, file |-> fresh[k], url |-> url0 + k - 1]]

handleImagesChange(files) ==
    /\ activeTab = "edit"
    /\ LET newImages == NewImages(uploadedImages, files, nextId, nextUrl)
       IN  /\ nextId + Len(newImages) - 1 <= MaxIds
           /\ nextId' = nextId + Len(newImages)
           /\ nextUrl' = nextUrl + Len(newImages)
           /\ IF Len(newImages) > 0
              THEN /\ uploadedImages' = uploadedImages \o newImages
                   /\ revoked' = EffectCleanup(revoked, uploadedImages)
              ELSE UNCHANGED <<uploadedImages, revoked>>
    /\ RevokeBounded(revoked')
    /\ UNCHANGED <<activeTab, selectedImageIds>>
    /\ UNCHANGED appVars
    /\ UNCHANGED runnerVars

\* prev.find(img => img.id === idToRemove): the first match
Find(images, idToRemove) ==
    images[CHOOSE i \in DOMAIN images :
                /\ images[i].id = idToRemove
                /\ \A j \in 1..(i - 1) : images[j].id # idToRemove]

\* the updater handed to setUploadedImages: revoke the found image's URL
RevokeRemoved(rev, images, idToRemove) ==
    IF \E i \in DOMAIN images : images[i].id = idToRemove
    THEN RevokeObjectURL(rev, Find(images, idToRemove).url)
    ELSE rev

\* prev.filter(img => img.id !== idToRemove)
FilterOut(images, idToRemove) == SelectSeq(images, LAMBDA img : img.id # idToRemove)

\* a removal that forgets the selection
DeleteFromSelection_Forgotten(selected, idToRemove) == selected

\* the updater handed to setSelectedImageIds
DeleteFromSelection(selected, idToRemove) == SetDelete(selected, idToRemove)

handleRemoveImage(idToRemove) ==
    /\ activeTab = "edit"
    /\ uploadedImages' = FilterOut(uploadedImages, idToRemove)
       \* filter returns a new array, so the effect's cleanup runs as well
    /\ revoked' = EffectCleanup(RevokeRemoved(revoked, uploadedImages, idToRemove),
                                uploadedImages)
    /\ selectedImageIds' = DeleteFromSelection(selectedImageIds, idToRemove)
    /\ RevokeBounded(revoked')
    /\ UNCHANGED <<activeTab, nextId, nextUrl>>
    /\ UNCHANGED appVars
    /\ UNCHANGED runnerVars

handleClearAllImages ==
    /\ activeTab = "edit"
    /\ Len(uploadedImages) > 0     \* the Clear button is rendered only then
    /\ uploadedImages' = <<>>
    /\ revoked' = EffectCleanup(RevokeEach(revoked, uploadedImages), uploadedImages)
    /\ selectedImageIds' = <<>>
    /\ RevokeBounded(revoked')
    /\ UNCHANGED <<activeTab, nextId, nextUrl>>
    /\ UNCHANGED appVars
    /\ UNCHANGED runnerVars

\* the updater handed to setSelectedImageIds
Toggle(selected, id) ==
    IF SetHas(selected, id) THEN SetDelete(selected, id) ELSE SetAdd(selected, id)

handleToggleSelection(id) ==
    /\ activeTab = "edit"
    /\ selectedImageIds' = Toggle(selectedImageIds, id)
    /\ UNCHANGED <<activeTab, uploadedImages, revoked, nextId, nextUrl>>
    /\ UNCHANGED appVars
    /\ UNCHANGED runnerVars

\* new Set(uploadedImages.map(img => img.id))
RECURSIVE NewSet(_)
NewSet(s) == IF s = <<>> THEN <<>>
             ELSE LET init == NewSet(SubSeq(s, 1, Len(s) - 1))
                  IN  SetAdd(init, s[Len(s)])

handleSelectAll ==
    /\ activeTab = "edit"
    /\ Len(uploadedImages) > 0     \* the button is rendered only then
    /\ selectedImageIds' = NewSet([i \in DOMAIN uploadedImages |-> uploadedImages[i].id])
    /\ UNCHANGED <<activeTab, uploadedImages, revoked, nextId, nextUrl>>
    /\ UNCHANGED appVars
    /\ UNCHANGED runnerVars

handleDeselectAll ==
    /\ activeTab = "edit"
    /\ Len(uploadedImages) > 0     \* the button is rendered only then
    /\ selectedImageIds' = <<>>
    /\ UNCHANGED <<activeTab, uploadedImages, revoked, nextId, nextUrl>>
    /\ UNCHANGED appVars
    /\ UNCHANGED runnerVars

----------------------------------------------------------------------------
(* Text: a string is the sequence of its characters *)

Space == " "
Alphabet == {Space, "a", "A"}
Texts == SeqsUpTo(Alphabet, MaxLen)

\* String.prototype.trim
RECURSIVE TrimStart(_)
TrimStart(s) == IF s # <<>> /\ Head(s) = Space THEN TrimStart(Tail(s)) ELSE s
RECURSIVE TrimEnd(_)
TrimEnd(s) == IF s # <<>> /\ s[Len(s)] = Space
              THEN TrimEnd(SubSeq(s, 1, Len(s) - 1)) ELSE s
\* a text taken as typed
Trim_Untrimmed(s) == s

Trim(s) == TrimEnd(TrimStart(s))

UpperCase == <<"A", "B", "C", "D", "E", "F", "G", "H", "I", "J", "K", "L", "M",
               "N", "O", "P", "Q", "R", "S", "T", "U", "V", "W", "X", "Y", "Z">>
LowerCase == <<"a", "b", "c", "d", "e", "f", "g", "h", "i", "j", "k", "l", "m",
               "n", "o", "p", "q", "r", "s", "t", "u", "v", "w", "x", "y", "z">>
ToLowerChar(c) == IF \E i \in DOMAIN UpperCase : UpperCase[i] = c
                  THEN LowerCase[CHOOSE i \in DOMAIN UpperCase : UpperCase[i] = c]
                  ELSE c
\* a comparison of titles that tells upper case from lower case
ToLowerCase_CaseSensitive(s) == s

\* String.prototype.toLowerCase
ToLowerCase(s) == [i \in DOMAIN s |-> ToLowerChar(s[i])]

----------------------------------------------------------------------------
(* App.tsx: the preset store's seed and the activity log *)

initialPresets == <<
    [title  |-> <<"V","i","n","t","a","g","e">>,
     prompt |-> <<"M","a","k","e"," ","i","t"," ","v","i","n","t","a","g","e">>],
    [title  |-> <<"C","i","n","e","m","a","t","i","c">>,
     prompt |-> <<"A","d","d"," ","c","i","n","e","m","a","t","i","c"," ",
                  "l","i","g","h","t","i","n","g">>],
    [title  |-> <<"H","i","g","h"," ","C","o","n","t","r","a","s","t">>,
     prompt |-> <<"I","n","c","r","e","a","s","e"," ","c","o","n","t","r","a","s","t">>],
    [title  |-> <<"B","&","W">>,
     prompt |-> <<"C","o","n","v","e","r","t"," ","t","o"," ","b","l","a","c","k"," ",
                  "a","n","d"," ","w","h","i","t","e">>],
    [title  |-> <<"D","r","e","a","m","y">>,
     prompt |-> <<"A","d","d"," ","a"," ","d","r","e","a","m","l","i","k","e"," ",
                  "g","l","o","w">> ] >>

\* PresetTab.tsx: useState({ title: '', prompt: '' })
EmptyForm == [title |-> <<>>, prompt |-> <<>>]

\* the record addToHistory builds from its argument
NewHistoryItem(item, uuid, now) ==
    [n \in DOMAIN item \cup {"id", "timestamp"} |->
        IF n = "id" THEN uuid ELSE IF n = "timestamp" THEN now ELSE item[n]]

\* an append that never reaches the log
AddToHistory_Dropped(prev, item, uuid, now) == prev

\* an append onto the empty log its flow saw when it started
AddToHistory_OntoSnapshot(prev, item, uuid, now) == <<NewHistoryItem(item, uuid, now)>>

\* an append that puts the new record behind the older ones
AddToHistory_AtEnd(prev, item, uuid, now) == Append(prev, NewHistoryItem(item, uuid, now))

\* setHistory(prev => [newHistoryItem, ...prev])
AddToHistory(prev, item, uuid, now) == <<NewHistoryItem(item, uuid, now)>> \o prev

----------------------------------------------------------------------------
(* services/geminiService.ts: the remote edit call, as far as the runner sees it *)

\* one part of a response candidate
TextPart == [hasInlineData |-> FALSE, mimeType |-> "", data |-> ""]
InlinePart(mime, d) == [hasInlineData |-> TRUE, mimeType |-> mime, data |-> d]

\* mimeType.startsWith('image/')
StartsWithImage(mime) == mime \in {"image/png", "image/jpeg"}

\* `data:${mimeType};base64,${base64ImageBytes}`
DataUrl(mime, d) == [mimeType |-> mime, base64 |-> d]

\* what ai.models.generateContent settles with: a rejection, or the parts of
\* the response's candidates in order
Rejection == [rejected |-> TRUE, parts |-> <<>>]
Response(parts) == [rejected |-> FALSE, parts |-> parts]

EditFailedMessage ==
    "Failed to edit the image. Please check your prompt and image and try again."

Returned(value) == [threw |-> FALSE, value |-> value]
Threw(message) == [threw |-> TRUE, error |-> [isError |-> TRUE, message |-> message]]

\* the images the nested forEach collects
CollectImages(parts) ==
    LET inline == SelectSeq(parts,
                    LAMBDA p : p.hasInlineData /\ StartsWithImage(p.mimeType))
    IN  [k \in DOMAIN inline |-> DataUrl(inline[k].mimeType, inline[k].data)]

\* editImageWithText, from the settled generateContent call on: every error of
\* the try block, the "no image data" one included, is rethrown as one Error
editImageWithText(response) ==
    IF response.rejected THEN Threw(EditFailedMessage)
    ELSE LET images == CollectImages(response.parts)
         IN  IF Len(images) = 0 THEN Threw(EditFailedMessage) ELSE Returned(images)

\* reader.result of a FileReader at onloadend: the file's data URL, or null
\* when the read failed
Null == [null |-> TRUE]
ReaderResult(file, readOk) == IF readOk THEN [dataUrlOf |-> file] ELSE Null

----------------------------------------------------------------------------
(* App.tsx: the two stores in localStorage. A stored text is absent, the
   empty string, a text JSON.parse throws on, or a JSON text given by its
   value tree. *)

Absent == [t |-> "absent"]
EmptyText == [t |-> "empty"]
Garbage == [t |-> "garbage"]
JsonText(tree) == [t |-> "json", v |-> tree]

JNull == [j |-> "null"]
JNum(n) == [j |-> "number", v |-> n]
JStr(str) == [j |-> "string", v |-> str]
JArr(items) == [j |-> "array", v |-> items]
Member(name, tree) == [k |-> name, v |-> tree]
JObj(members) == [j |-> "object", v |-> members]

\* JSON.stringify of a string array whose elements may be null
UrlsToJson(urls) ==
    JArr([k \in DOMAIN urls |-> IF urls[k] = Null THEN JNull ELSE JStr(urls[k])])

\* JSON.stringify of one property of a history item
ItemFieldToJson(name, value) ==
    IF name \in {"inputImages", "outputImages"} THEN UrlsToJson(value)
    ELSE IF name = "timestamp" THEN JNum(value)
    ELSE JStr(value)

\* the properties of a history item in the order the object was built:
\* the spread argument first, then id and timestamp
HistoryFieldOrder ==
    <<"type", "prompt", "inputImages", "outputImages", "outputText", "id", "timestamp">>

\* JSON.stringify(history); a property the item does not have is left out
HistoryItemToJson(item) ==
    LET names == SelectSeq(HistoryFieldOrder, LAMBDA n : n \in DOMAIN item)
    IN  JObj([k \in DOMAIN names |-> Member(names[k], ItemFieldToJson(names[k], item[names[k]]))])
StringifyHistory(items) ==
    JsonText(JArr([k \in DOMAIN items |-> HistoryItemToJson(items[k])]))

\* JSON.stringify(presets)
PresetToJson(p) ==
    JObj(<<Member("title", JStr(p.title)), Member("prompt", JStr(p.prompt))>>)
StringifyPresets(list) ==
    JsonText(JArr([k \in DOMAIN list |-> PresetToJson(list[k])]))

\* the value JSON.parse builds from a tree; of two members with one name the
\* later one wins
MemberNames(members) == {members[k].k : k \in DOMAIN members}
LastMember(members, name) ==
    members[CHOOSE k \in DOMAIN members :
                /\ members[k].k = name
                /\ \A m \in DOMAIN members : members[m].k = name => m <= k].v
RECURSIVE FromJson(_)
FromJson(tree) ==
    IF tree.j = "null" THEN Null
    ELSE IF tree.j \in {"number", "string"} THEN tree.v
    ELSE IF tree.j = "array" THEN [k \in DOMAIN tree.v |-> FromJson(tree.v[k])]
    ELSE [n \in MemberNames(tree.v) |-> FromJson(LastMember(tree.v, n))]

\* Array.isArray(parsed)
IsArray(tree) == tree.j = "array"
\* typeof item === 'object' && item !== null && 'title' in item && 'prompt' in item
IsPresetLike(tree) ==
    /\ tree.j = "object"
    /\ {"title", "prompt"} \subseteq MemberNames(tree.v)

\* a loader that takes a parsed value that is no array as a log of one entry
LoadHistory_Wrapped(saved) ==
    IF saved.t \in {"absent", "empty", "garbage"} THEN <<>>
    ELSE IF IsArray(saved.v) THEN FromJson(saved.v)
    ELSE <<FromJson(saved.v)>>

\* the useState initializer of history: absent, empty, unparseable and
\* non-array values give the empty log
LoadHistory(saved) ==
    IF saved.t \in {"absent", "empty"} THEN <<>>
    ELSE IF saved.t = "garbage" THEN <<>>
    ELSE IF IsArray(saved.v) THEN FromJson(saved.v)
    ELSE <<>>

\* the useState initializer of presets
LoadPresets(saved) ==
    IF saved.t \in {"absent", "empty"} THEN initialPresets
    ELSE IF saved.t = "garbage" THEN initialPresets
    ELSE IF IsArray(saved.v) /\ \A k \in DOMAIN saved.v.v : IsPresetLike(saved.v.v[k])
         THEN FromJson(saved.v)
    ELSE initialPresets

\* a write that always goes to the presets key
SetItem_PresetsKey(store, key, text, ok) ==
    IF ok THEN [store EXCEPT !["presets"] = text] ELSE store

\* localStorage.setItem inside try/catch: a write that throws leaves the
\* stored text as it was
SetItem(store, key, text, ok) == IF ok THEN [store EXCEPT ![key] = text] ELSE store

\* the persistence effects, run after a render with a new presets / history array
SavePresets(store, list, ok) == SetItem(store, "presets", StringifyPresets(list), ok)
SaveHistory(store, items, ok) == SetItem(store, "history", StringifyHistory(items), ok)

----------------------------------------------------------------------------
(* EditTab.tsx: the batch job runner *)

ValidationMessage ==
    "Please select at least one image and provide editing instructions."

NoProgress == [text |-> "none"]
Preparing == [text |-> "preparing"]
\* `Editing image ${i + 1} of ${total}: ${image.file.name}`, index counted from 1
Editing(index, total, name) ==
    [text |-> "editing", index |-> index, total |-> total, name |-> name]

\* JS Map as its insertion-ordered sequence of [key, value] entries
MapHas(map, key) == \E i \in DOMAIN map : map[i].key = key
MapGet(map, key) == map[CHOOSE i \in DOMAIN map : map[i].key = key].value
MapSet(map, key, value) ==
    IF MapHas(map, key)
    THEN [i \in DOMAIN map |-> IF map[i].key = key
                               THEN [key |-> key, value |-> value] ELSE map[i]]
    ELSE Append(map, [key |-> key, value |-> value])
MapKeys(map) == {map[i].key : i \in DOMAIN map}
MapSize(map) == Len(map)

\* !loading && prompt.trim() && selectedImageIds.size > 0
canSubmit == ~ loading /\ Trim(prompt) # <<>> /\ SetSize(selectedImageIds) > 0

\* uploadedImages.filter(img => selectedImageIds.has(img.id))
SelectedImages(images, selected) ==
    SelectSeq(images, LAMBDA img : SetHas(selected, img.id))

\* a loop that starts the calls of all remaining items at once
IssueCalls_AllAtOnce(images, i) == {[id |-> images[k].id, op |-> "edit"] : k \in i..Len(images)}

\* the calls the loop has in flight once it reaches index i: it awaits
\* editImageWithText for images[i]
IssueCalls(images, i) == {[id |-> images[i].id, op |-> "edit"]}

\* the two EditResult shapes the loop stores
SuccessResult(image, resultUrls) ==
    [originalUrl |-> image.url, editedUrls |-> resultUrls,
     selectedEditedUrl |-> IF Len(resultUrls) > 0 THEN resultUrls[1] ELSE Null]
FailureResult(image, err) ==
    [originalUrl |-> image.url, editedUrls |-> <<>>, selectedEditedUrl |-> Null,
     error |-> IF err.isError THEN err.message ELSE "An unknown error occurred"]

\* the argument of addToHistory
EditHistoryArg(trimmedPrompt, originalDataUrl, resultUrls) ==
    [type |-> "edit", prompt |-> trimmedPrompt,
     inputImages |-> <<originalDataUrl>>, outputImages |-> resultUrls]

RemoveAt(s, k) == [j \in 1..(Len(s) - 1) |-> IF j < k THEN s[j] ELSE s[j + 1]]

\* handleSubmit, validation branch: report and return
SubmitRejected ==
    /\ activeTab = "edit"
    /\ Trim(prompt) = <<>> \/ SetSize(selectedImageIds) = 0
    /\ error' = ValidationMessage
    /\ UNCHANGED <<activeTab, prompt, editResults, loading, progressMessage, runs>>
    /\ UNCHANGED appVars
    /\ UNCHANGED registryVars

\* the state of a handleSubmit invocation suspended at an await
NewRun(selectedImages, trimmedPrompt) ==
    [images |-> selectedImages, prompt |-> trimmedPrompt, i |-> 1,
     newResults |-> <<>>, inFlight |-> IssueCalls(selectedImages, 1),
     resultUrls |-> <<>>,
     attached |-> TRUE,     \* its component instance is still mounted
     appended |-> <<>>]     \* observer: ids whose record it handed to addToHistory

\* handleSubmit past validation, up to its first await
SubmitAccepted ==
    /\ activeTab = "edit"
    /\ ~ (Trim(prompt) = <<>> \/ SetSize(selectedImageIds) = 0)
    /\ Len(runs) < MaxRuns
    /\ error' = ""
    /\ LET selectedImages == SelectedImages(uploadedImages, selectedImageIds)
           total == Len(selectedImages)
       IN  IF total > 0
           THEN /\ loading' = TRUE
                /\ editResults' = <<>>
                /\ progressMessage' = Editing(1, total, selectedImages[1].file.name)
                /\ runs' = Append(runs, NewRun(selectedImages, Trim(prompt)))
           ELSE \* nothing to await: the handler runs to its end
                /\ loading' = FALSE
                /\ editResults' = <<>>
                /\ progressMessage' = NoProgress
                /\ runs' = runs
    /\ UNCHANGED <<activeTab, prompt>>
    /\ UNCHANGED appVars
    /\ UNCHANGED registryVars

handleSubmit == SubmitRejected \/ SubmitAccepted

\* a loop that gives up at the first failed item
LoopDone_AbortOnFailure(run) ==
    \/ ~ (run.i + 1 <= Len(run.images))
    \/ "error" \in DOMAIN run.newResults[Len(run.newResults)].value

\* the for loop's condition fails after i++: every item has been processed
LoopDone(run) == ~ (run.i + 1 <= Len(run.images))

\* the loop's next iteration after item i's result is stored, or the code
\* after the loop; state setters of an unmounted instance do nothing
Continue(r, run) ==
    LET next == run.i + 1
        total == Len(run.images)
    IN  IF ~ LoopDone(run)
        THEN /\ runs' = [runs EXCEPT ![r] =
                            [run EXCEPT !.i = next,
                                        !.resultUrls = <<>>,
                                        !.inFlight = IssueCalls(run.images, next)]]
             /\ progressMessage' =
                    IF run.attached
                    THEN Editing(next, total, run.images[next].file.name)
                    ELSE progressMessage
             /\ UNCHANGED <<editResults, loading>>
        ELSE /\ runs' = RemoveAt(runs, r)
             /\ IF run.attached
                THEN /\ editResults' = run.newResults
                     /\ loading' = FALSE
                     /\ progressMessage' = NoProgress
                ELSE UNCHANGED <<editResults, loading, progressMessage>>

CurrentCall(run, op) == [id |-> run.images[run.i].id, op |-> op]

\* fileToGenerativePart's FileReader fails: reader.result is null, split throws
\* inside the onloadend callback, the promise is never resolved and the
\* awaited editImageWithText call never settles
EditHangs(r) ==
    /\ r \in DOMAIN runs
    /\ CurrentCall(runs[r], "edit") \in runs[r].inFlight
    /\ runs' = [runs EXCEPT ![r].inFlight =
                    (@ \ {CurrentCall(runs[r], "edit")}) \cup {CurrentCall(runs[r], "never")}]
    /\ UNCHANGED <<activeTab, prompt, editResults, loading, progressMessage, error>>
    /\ UNCHANGED appVars
    /\ UNCHANGED registryVars

\* the awaited editImageWithText call settles: the file was read and
\* ai.models.generateContent answered or rejected
EditSettles(r, response) ==
    /\ r \in DOMAIN runs
    /\ CurrentCall(runs[r], "edit") \in runs[r].inFlight
    /\ LET run == runs[r]
           image == run.images[run.i]
           result == editImageWithText(response)
       IN  IF result.threw
           THEN Continue(r, [run EXCEPT
                    !.inFlight = @ \ {CurrentCall(run, "edit")},
                    !.newResults = MapSet(@, image.id, FailureResult(image, result.error))])
           ELSE /\ runs' = [runs EXCEPT ![r] = [run EXCEPT
                    !.inFlight = (@ \ {CurrentCall(run, "edit")})
                                    \cup {CurrentCall(run, "dataUrl")},
                    !.resultUrls = result.value]]
                /\ UNCHANGED <<editResults, loading, progressMessage>>
    /\ UNCHANGED <<activeTab, prompt, error>>
    /\ UNCHANGED appVars
    /\ UNCHANGED registryVars

\* fileToDataUrl's FileReader fires onloadend: the record is appended and the
\* result stored before the loop goes on
DataUrlSettles(r, readOk) ==
    /\ r \in DOMAIN runs
    /\ CurrentCall(runs[r], "dataUrl") \in runs[r].inFlight
    /\ nextRecordId <= MaxHistory
    /\ LET run == runs[r]
           image == run.images[run.i]
           originalDataUrl == ReaderResult(image.file, readOk)
       IN  /\ history' = AddToHistory(history,
                            EditHistoryArg(run.prompt, originalDataUrl, run.resultUrls),
                            nextRecordId, nextRecordId)
           /\ storage' = SaveHistory(storage, history', writable)
           /\ nextRecordId' = nextRecordId + 1
           /\ Continue(r, [run EXCEPT
                    !.inFlight = @ \ {CurrentCall(run, "dataUrl")},
                    !.appended = Append(@, image.id),
                    !.newResults = MapSet(@, image.id, SuccessResult(image, run.resultUrls))])
    /\ UNCHANGED <<activeTab, prompt, error, presets, presetError, newPreset, writable>>
    /\ UNCHANGED visionVars
    /\ UNCHANGED registryVars

\* the textarea's onChange; the textarea is disabled while loading
TypePrompt(text) ==
    /\ activeTab = "edit"
    /\ ~ loading
    /\ prompt' = text
    /\ UNCHANGED <<activeTab, editResults, loading, progressMessage, error, runs>>
    /\ UNCHANGED appVars
    /\ UNCHANGED registryVars

\* an updater that also makes up an entry for an id without a result
SelectEditedResultImage_Unchecked(prev, originalId, imageUrl) ==
    MapSet(prev, originalId,
           IF MapHas(prev, originalId)
           THEN [MapGet(prev, originalId) EXCEPT !.selectedEditedUrl = imageUrl]
           ELSE [originalUrl |-> Null, editedUrls |-> <<>>, selectedEditedUrl |-> imageUrl])

\* the updater handleSelectEditedResultImage hands to setEditResults
SelectEditedResultImage(prev, originalId, imageUrl) ==
    IF MapHas(prev, originalId)
    THEN MapSet(prev, originalId,
                [MapGet(prev, originalId) EXCEPT !.selectedEditedUrl = imageUrl])
    ELSE prev

handleSelectEditedResultImage(originalId, imageUrl) ==
    /\ activeTab = "edit"
    /\ editResults' = SelectEditedResultImage(editResults, originalId, imageUrl)
    /\ UNCHANGED <<activeTab, prompt, loading, progressMessage, error, runs>>
    /\ UNCHANGED appVars
    /\ UNCHANGED registryVars

\* the thumbnails rendered under a result: shown when the run is over, for
\* a result without error that has a selected image and more than one image
Thumbnails(id) ==
    IF ~ loading /\ MapHas(editResults, id)
    THEN LET result == MapGet(editResults, id)
         IN  IF /\ "error" \notin DOMAIN result
                /\ Len(result.editedUrls) > 0
                /\ result.selectedEditedUrl # Null
                /\ Len(result.editedUrls) > 1
             THEN {result.editedUrls[k] : k \in DOMAIN result.editedUrls}
             ELSE {}
    ELSE {}

\* a preset button of the edit view: setPrompt(p.prompt)
ApplyPreset(k) ==
    /\ activeTab = "edit"
    /\ k \in DOMAIN presets
    /\ prompt' = presets[k].prompt
    /\ UNCHANGED <<activeTab, editResults, loading, progressMessage, error, runs>>
    /\ UNCHANGED appVars
    /\ UNCHANGED registryVars

----------------------------------------------------------------------------
(* PresetTab.tsx and EditTab.tsx: the preset store *)

RequiredMessage == "Both title and instructions are required."
TitleExistsMessage == "A preset with this title already exists."
PromptExistsMessage == "A preset with these instructions already exists."

\* presets.some(p => p.title.toLowerCase() === trimmedTitle.toLowerCase())
TitleTaken(list, trimmedTitle) ==
    \E k \in DOMAIN list : ToLowerCase(list[k].title) = ToLowerCase(trimmedTitle)

\* presets.some(p => p.prompt === trimmedPrompt)
PromptTaken(list, trimmedPrompt) ==
    \E k \in DOMAIN list : list[k].prompt = trimmedPrompt

\* an insertion that is taken back
InsertPreset_RolledBack(entry, list) == list

\* a new entry put behind the entries already stored
InsertPreset_AtEnd(entry, list) == Append(list, entry)

\* [{ title: trimmedTitle, prompt: trimmedPrompt }, ...presets]
InsertPreset(entry, list) == <<entry>> \o list

\* the store handleAddPreset leaves for a form holding title and prompt
AddPresetStore(list, title, prompt_) ==
    LET trimmedTitle == Trim(title)
        trimmedPrompt == Trim(prompt_)
    IN  IF trimmedTitle = <<>> \/ trimmedPrompt = <<>> THEN list
        ELSE IF TitleTaken(list, trimmedTitle) THEN list
        ELSE IF PromptTaken(list, trimmedPrompt) THEN list
        ELSE InsertPreset([title |-> trimmedTitle, prompt |-> trimmedPrompt], list)

\* the title input's onChange
TypeTitle(value) ==
    /\ activeTab = "presets"
    /\ newPreset' = [newPreset EXCEPT !.title = value]
    /\ presetError' = ""
    /\ UNCHANGED <<activeTab, presets, history, nextRecordId>>
    /\ UNCHANGED storeVars
    /\ UNCHANGED visionVars
    /\ UNCHANGED registryVars
    /\ UNCHANGED runnerVars

\* the instructions textarea's onChange
TypeInstructions(value) ==
    /\ activeTab = "presets"
    /\ newPreset' = [newPreset EXCEPT !.prompt = value]
    /\ presetError' = ""
    /\ UNCHANGED <<activeTab, presets, history, nextRecordId>>
    /\ UNCHANGED storeVars
    /\ UNCHANGED visionVars
    /\ UNCHANGED registryVars
    /\ UNCHANGED runnerVars

\* the preset form's onSubmit. The Add Preset button is disabled while a
\* field is empty after trimming; the handler checks the fields again.
handleAddPreset ==
    /\ activeTab = "presets"
    /\ LET trimmedTitle == Trim(newPreset.title)
           trimmedPrompt == Trim(newPreset.prompt)
       IN  IF trimmedTitle = <<>> \/ trimmedPrompt = <<>>
           THEN /\ presetError' = RequiredMessage
                /\ UNCHANGED <<presets, newPreset, storage>>
           ELSE IF TitleTaken(presets, trimmedTitle)
           THEN /\ presetError' = TitleExistsMessage
                /\ UNCHANGED <<presets, newPreset, storage>>
           ELSE IF PromptTaken(presets, trimmedPrompt)
           THEN /\ presetError' = PromptExistsMessage
                /\ UNCHANGED <<presets, newPreset, storage>>
           ELSE /\ Len(presets) < MaxPresets
                /\ presets' = InsertPreset([title |-> trimmedTitle,
                                            prompt |-> trimmedPrompt], presets)
                /\ storage' = SavePresets(storage, presets', writable)
                /\ newPreset' = EmptyForm
                /\ presetError' = ""
    /\ UNCHANGED <<activeTab, history, nextRecordId, writable>>
    /\ UNCHANGED visionVars
    /\ UNCHANGED registryVars
    /\ UNCHANGED runnerVars

\* presets.filter(p => p.title !== presetToDelete.title)
FilterOutTitle(list, title) == SelectSeq(list, LAMBDA p : p.title # title)

handleDeletePreset(presetToDelete) ==
    /\ activeTab = "presets"
    /\ presets' = FilterOutTitle(presets, presetToDelete.title)
    /\ storage' = SavePresets(storage, presets', writable)
    /\ UNCHANGED <<activeTab, history, nextRecordId, presetError, newPreset, writable>>
    /\ UNCHANGED visionVars
    /\ UNCHANGED registryVars
    /\ UNCHANGED runnerVars

\* what window.prompt returns: null when the dialog is cancelled, else its text
Answer(text) == [text |-> text]

\* a save that does not look for an entry with the same instructions
SaveAsPresetStore_NoPromptCheck(list, title, prompt_) ==
    LET trimmedPrompt == Trim(prompt_)
    IN  IF trimmedPrompt = <<>> THEN list
        ELSE IF title = Null \/ title.text = <<>> \/ Trim(title.text) = <<>> THEN list
        ELSE IF TitleTaken(list, Trim(title.text)) THEN list
        ELSE InsertPreset([title |-> Trim(title.text), prompt |-> trimmedPrompt], list)

\* the store handleSaveAsPreset leaves for the edit view's prompt and the
\* answer given to window.prompt
SaveAsPresetStore(list, title, prompt_) ==
    LET trimmedPrompt == Trim(prompt_)
    IN  IF trimmedPrompt = <<>> THEN list
        ELSE IF title = Null \/ title.text = <<>> \/ Trim(title.text) = <<>> THEN list
        ELSE IF TitleTaken(list, Trim(title.text)) THEN list
        ELSE IF PromptTaken(list, trimmedPrompt) THEN list
        ELSE InsertPreset([title |-> Trim(title.text), prompt |-> trimmedPrompt], list)

\* the Save as Preset button of the edit view; alert() leaves the state alone
handleSaveAsPreset(title) ==
    /\ activeTab = "edit"
    /\ LET trimmedPrompt == Trim(prompt)
       IN  IF trimmedPrompt = <<>>
           THEN UNCHANGED <<presets, storage>>
           ELSE IF title = Null \/ title.text = <<>> \/ Trim(title.text) = <<>>
           THEN UNCHANGED <<presets, storage>>
           ELSE IF TitleTaken(presets, Trim(title.text))
           THEN UNCHANGED <<presets, storage>>
           ELSE IF PromptTaken(presets, trimmedPrompt)
           THEN UNCHANGED <<presets, storage>>
           ELSE /\ Len(presets) < MaxPresets
                /\ presets' = InsertPreset([title |-> Trim(title.text),
                                            prompt |-> trimmedPrompt], presets)
                /\ storage' = SavePresets(storage, presets', writable)
    /\ UNCHANGED <<activeTab, history, nextRecordId, presetError, newPreset, writable>>
    /\ UNCHANGED visionVars
    /\ UNCHANGED registryVars
    /\ UNCHANGED runnerVars

----------------------------------------------------------------------------
(* VisionTab: the analysis of one image *)

\* VisionTab:14-19, the useState initial values; the response text and the
\* image URL are wrapped so that undefined and null can stand in their place
Undefined == [undefined |-> TRUE]
InitialVision ==
    [prompt |-> <<>>, imageFile |-> Null, imageUrl |-> Null,
     response |-> [text |-> <<>>], loading |-> FALSE, error |-> ""]

VisionValidationMessage == "Please provide both an image and a prompt."
VisionFailedMessage ==
    "Failed to get a response from the AI. Please check the console for details."

\* what generateContent settles with for an analysis: a rejection, or a
\* response whose text getter gives a string or undefined
TextResponse(text) == [rejected |-> FALSE, text |-> [text |-> text]]
NoTextResponse == [rejected |-> FALSE, text |-> Undefined]

\* generateTextFromImageAndText, from the settled generateContent call on
generateTextFromImageAndText(response) ==
    IF response.rejected THEN Threw(VisionFailedMessage) ELSE Returned(response.text)

\* the argument of addToHistory; a property whose value is undefined reads
\* like one the object does not have
VisionHistoryArg(prompt_, inputImageUrl, result) ==
    IF result = Undefined
    THEN [type |-> "vision", prompt |-> prompt_, inputImages |-> <<inputImageUrl>>]
    ELSE [type |-> "vision", prompt |-> prompt_, inputImages |-> <<inputImageUrl>>,
          outputText |-> result.text]

\* the cleanup of the imageUrl effect
RevokeImageUrl(rev, imageUrl) ==
    IF imageUrl = Null THEN rev ELSE RevokeObjectURL(rev, imageUrl.url)

handleImageChange(files) ==
    /\ activeTab = "vision"
    /\ IF Len(files) > 0
       THEN /\ nextUrl <= MaxIds
            /\ vision' = [vision EXCEPT !.imageFile = files[1],
                                        !.imageUrl = [url |-> nextUrl],
                                        !.error = "",
                                        !.response = [text |-> <<>>]]
            /\ nextUrl' = nextUrl + 1
            /\ revoked' = RevokeImageUrl(revoked, vision.imageUrl)
            /\ RevokeBounded(revoked')
       ELSE UNCHANGED <<vision, nextUrl, revoked>>
    /\ UNCHANGED <<activeTab, presets, history, nextRecordId, presetError, newPreset,
                   visionRuns, uploadedImages, selectedImageIds, nextId>>
    /\ UNCHANGED storeVars
    /\ UNCHANGED runnerVars

\* the textarea's onChange; the textarea is disabled while loading
VisionTypePrompt(text) ==
    /\ activeTab = "vision"
    /\ ~ vision.loading
    /\ vision' = [vision EXCEPT !.prompt = text]
    /\ UNCHANGED <<activeTab, presets, history, nextRecordId, presetError, newPreset,
                   visionRuns>>
    /\ UNCHANGED storeVars
    /\ UNCHANGED registryVars
    /\ UNCHANGED runnerVars

\* handleSubmit of VisionTab, validation branch
VisionSubmitRejected ==
    /\ activeTab = "vision"
    /\ vision.prompt = <<>> \/ vision.imageFile = Null
    /\ vision' = [vision EXCEPT !.error = VisionValidationMessage]
    /\ UNCHANGED <<activeTab, presets, history, nextRecordId, presetError, newPreset,
                   visionRuns>>
    /\ UNCHANGED storeVars
    /\ UNCHANGED registryVars
    /\ UNCHANGED runnerVars

\* handleSubmit of VisionTab up to its first await
VisionSubmitAccepted ==
    /\ activeTab = "vision"
    /\ ~ (vision.prompt = <<>> \/ vision.imageFile = Null)
    /\ Len(visionRuns) < MaxRuns
    /\ vision' = [vision EXCEPT !.loading = TRUE, !.error = "",
                                !.response = [text |-> <<>>]]
    /\ visionRuns' = Append(visionRuns,
            [prompt |-> vision.prompt, imageFile |-> vision.imageFile,
             stage |-> "generate", result |-> Undefined, attached |-> TRUE])
    /\ UNCHANGED <<activeTab, presets, history, nextRecordId, presetError, newPreset>>
    /\ UNCHANGED storeVars
    /\ UNCHANGED registryVars
    /\ UNCHANGED runnerVars

VisionTab_handleSubmit == VisionSubmitRejected \/ VisionSubmitAccepted

\* the Analyze Image button: disabled={loading || !prompt || !imageFile}
canAnalyze == ~ vision.loading /\ vision.prompt # <<>> /\ vision.imageFile # Null

\* the state setters of run v, which do nothing once VisionTab is unmounted
VisionSet(v, update) == IF visionRuns[v].attached THEN update ELSE vision

\* fileToGenerativePart's reader ends with a null result: the split throws
\* inside the callback and the awaited promise never settles
GenerateHangs(v) ==
    /\ v \in DOMAIN visionRuns
    /\ visionRuns[v].stage = "generate"
    /\ visionRuns' = [visionRuns EXCEPT ![v].stage = "never"]
    /\ UNCHANGED <<activeTab, presets, history, nextRecordId, presetError, newPreset,
                   vision>>
    /\ UNCHANGED storeVars
    /\ UNCHANGED registryVars
    /\ UNCHANGED runnerVars

\* await generateTextFromImageAndText settles: on a throw the catch and the
\* finally block run; otherwise the handler goes on to await fileToDataUrl
GenerateSettles(v, response) ==
    /\ v \in DOMAIN visionRuns
    /\ visionRuns[v].stage = "generate"
    /\ LET outcome == generateTextFromImageAndText(response)
       IN  IF outcome.threw
           THEN /\ vision' = VisionSet(v, [vision EXCEPT
                                !.error = IF outcome.error.isError
                                          THEN outcome.error.message
                                          ELSE "An unknown error occurred",
                                !.loading = FALSE])
                /\ visionRuns' = RemoveAt(visionRuns, v)
           ELSE /\ visionRuns' = [visionRuns EXCEPT ![v].stage = "dataUrl",
                                                    ![v].result = outcome.value]
                /\ UNCHANGED vision
    /\ UNCHANGED <<activeTab, presets, history, nextRecordId, presetError, newPreset>>
    /\ UNCHANGED storeVars
    /\ UNCHANGED registryVars
    /\ UNCHANGED runnerVars

\* await fileToDataUrl settles: the record is appended, the response shown
\* and the finally block run
VisionDataUrlSettles(v, readOk) ==
    /\ v \in DOMAIN visionRuns
    /\ visionRuns[v].stage = "dataUrl"
    /\ nextRecordId <= MaxHistory
    /\ LET run == visionRuns[v]
           inputImageUrl == ReaderResult(run.imageFile, readOk)
       IN  /\ history' = AddToHistory(history,
                            VisionHistoryArg(run.prompt, inputImageUrl, run.result),
                            nextRecordId, nextRecordId)
           /\ storage' = SaveHistory(storage, history', writable)
           /\ nextRecordId' = nextRecordId + 1
           /\ vision' = VisionSet(v, [vision EXCEPT !.response = run.result,
                                                    !.loading = FALSE])
           /\ visionRuns' = RemoveAt(visionRuns, v)
    /\ UNCHANGED <<activeTab, presets, presetError, newPreset, writable>>
    /\ UNCHANGED registryVars
    /\ UNCHANGED runnerVars

----------------------------------------------------------------------------
(* App.tsx: switching tabs mounts and unmounts the tab components *)

Detach(rs) == [k \in DOMAIN rs |-> [rs[k] EXCEPT !.attached = FALSE]]

SetActiveTab(tabName) ==
    /\ tabName # activeTab
    /\ activeTab' = tabName
    /\ IF activeTab = "edit"
       THEN \* EditTab unmounts: its effect cleanup runs, its state is dropped
            \* and a later mount starts from the useState initial values
            /\ revoked' = EffectCleanup(revoked, uploadedImages)
            /\ RevokeBounded(revoked')
            /\ uploadedImages' = <<>>
            /\ selectedImageIds' = <<>>
            /\ prompt' = <<>>
            /\ editResults' = <<>>
            /\ loading' = FALSE
            /\ progressMessage' = NoProgress
            /\ error' = ""
            /\ runs' = Detach(runs)
       ELSE /\ UNCHANGED <<uploadedImages, selectedImageIds, prompt,
                           editResults, loading, progressMessage, error, runs>>
            /\ IF activeTab = "vision"
               THEN /\ revoked' = RevokeImageUrl(revoked, vision.imageUrl)
                    /\ RevokeBounded(revoked')
               ELSE UNCHANGED revoked
    /\ IF activeTab = "vision"
       THEN \* VisionTab unmounts
            /\ vision' = InitialVision
            /\ visionRuns' = Detach(visionRuns)
       ELSE UNCHANGED <<vision, visionRuns>>
    /\ IF activeTab = "presets"
       THEN \* PresetTab unmounts: its form and its error text are dropped
            /\ presetError' = ""
            /\ newPreset' = EmptyForm
       ELSE UNCHANGED <<presetError, newPreset>>
    /\ UNCHANGED <<presets, history, nextRecordId, nextId, nextUrl>>
    /\ UNCHANGED storeVars

\* HistoryTab: the Clear History button, confirmed
handleClearHistory ==
    /\ activeTab = "history"
    /\ Len(history) > 0            \* the button is rendered only then
    /\ history' = <<>>
    /\ storage' = SaveHistory(storage, history', writable)
    /\ UNCHANGED <<activeTab, presets, nextRecordId, presetError, newPreset, writable>>
    /\ UNCHANGED visionVars
    /\ UNCHANGED registryVars
    /\ UNCHANGED runnerVars

----------------------------------------------------------------------------
(* App.tsx: a fresh session, and what the environment does to localStorage *)

\* the page is loaded again: App is constructed from what localStorage holds,
\* the edit view is mounted and the persistence effects run once; whatever
\* the previous page was still doing is gone with it
Reload ==
    /\ activeTab' = "edit"
    /\ presets' = LoadPresets(storage.presets)
    /\ history' = LoadHistory(storage.history)
    /\ storage' = SaveHistory(SavePresets(storage, presets', writable), history', writable)
    /\ prompt' = <<>>
    /\ uploadedImages' = <<>>
    /\ selectedImageIds' = <<>>
    /\ editResults' = <<>>
    /\ loading' = FALSE
    /\ progressMessage' = NoProgress
    /\ error' = ""
    /\ runs' = <<>>
    /\ presetError' = ""
    /\ newPreset' = EmptyForm
    /\ vision' = InitialVision
    /\ visionRuns' = <<>>
    /\ UNCHANGED <<revoked, nextId, nextUrl, nextRecordId, writable>>

\* localStorage.setItem starts or stops throwing (quota exceeded, storage
\* disabled)
SetWritable(ok) ==
    /\ ok # writable
    /\ writable' = ok
    /\ UNCHANGED <<activeTab, presets, history, nextRecordId, presetError, newPreset,
                   storage>>
    /\ UNCHANGED visionVars
    /\ UNCHANGED registryVars
    /\ UNCHANGED runnerVars

\* something else than this page writes a key of localStorage, or removes it
ExternalWrite(key, text) ==
    /\ storage' = [storage EXCEPT ![key] = text]
    /\ UNCHANGED <<activeTab, presets, history, nextRecordId, presetError, newPreset,
                   writable>>
    /\ UNCHANGED visionVars
    /\ UNCHANGED registryVars
    /\ UNCHANGED runnerVars

----------------------------------------------------------------------------
(* The state after App and its first tab (the edit view) are constructed, with *)
(* nothing persisted yet                                                       *)

Init ==
    /\ activeTab = "edit"
    /\ presets = initialPresets
    /\ history = <<>>
    /\ prompt = <<>>
    /\ uploadedImages = <<>>
    /\ selectedImageIds = <<>>
    /\ editResults = <<>>
    /\ loading = FALSE
    /\ progressMessage = NoProgress
    /\ error = ""
    /\ revoked = [u \in Urls |-> 0]
    /\ nextId = 1
    /\ nextUrl = 1
    /\ nextRecordId = 1
    /\ runs = <<>>
    /\ presetError = ""
    /\ newPreset = EmptyForm
    /\ writable = TRUE
    /\ storage = [presets |-> StringifyPresets(initialPresets),
                  history |-> StringifyHistory(<<>>)]
    /\ vision = InitialVision
    /\ visionRuns = <<>>

----------------------------------------------------------------------------
(* The item registry under every user action that reaches it *)

NextRegistry ==
    \/ \E files \in FileLists : handleImagesChange(files)
    \/ \E id \in ImageIds(uploadedImages) : handleRemoveImage(id)
    \/ handleClearAllImages
    \/ \E id \in ImageIds(uploadedImages) : handleToggleSelection(id)
    \/ handleSelectAll
    \/ handleDeselectAll
    \/ \E tabName \in Tabs : SetActiveTab(tabName)

SpecRegistry == Init /\ [][NextRegistry]_vars

\* the handles URL.createObjectURL has handed out so far
CreatedUrls == 1..(nextUrl - 1)

\* C1: every display handle created by addItems is released exactly once:
\* never twice, and never zero times once its item has left the registry
\* (removed, cleared or torn down with the view).
C1_ReleasedExactlyOnce ==
    \A u \in CreatedUrls :
        /\ revoked[u] <= 1
        /\ u \notin ImageUrls(uploadedImages) => revoked[u] = 1

\* C2: every item still present in the registry has a display handle that
\* has not been released.
C2_RegisteredHandleLive ==
    \A i \in DOMAIN uploadedImages : revoked[uploadedImages[i].url] = 0

\* C3: no two items stored in the registry have identical (name, size) pairs.
C3_NoDuplicateNameSize ==
    \A i, j \in DOMAIN uploadedImages :
        i # j => ~ ( /\ uploadedImages[i].file.name = uploadedImages[j].file.name
                     /\ uploadedImages[i].file.size = uploadedImages[j].file.size )

\* C4: the selection is always a subset of the registered ids, and removing
\* an item removes exactly its id from the selection.
C4_SelectionPruned ==
    /\ [](Range(selectedImageIds) \subseteq ImageIds(uploadedImages))
    /\ [][\A id \in Ids :
            handleRemoveImage(id) =>
                Range(selectedImageIds') = Range(selectedImageIds) \ {id}]_vars

\* items 1, 2 and 3 were registered, 2 was removed, 1 and 3 are still selected
C4_Witness ==
    /\ ImageIds(uploadedImages) = {1, 3}
    /\ Range(selectedImageIds) = {1, 3}

----------------------------------------------------------------------------------------------------------------------------------------
(* The edit view with its batch job runner, and the log the runner appends   *)
(* to, under the user actions the rendered controls allow                    *)

\* one drop of three distinct files
RunnerFileLists == {<<[name |-> "a.png", size |-> 1], [name |-> "a.png", size |-> 2],
                      [name |-> "b.png", size |-> 1]>>}
\* a text that trims to "a"
RunnerPrompts == {<<"a", Space>>}
\* the call rejects, answers without an image, answers with one image
RunnerResponses == {Rejection, Response(<<TextPart>>),
                    Response(<<TextPart, InlinePart("image/png", "d1")>>)}
RunnerTabs == {"edit", "history"}

NextRunner ==
    \/ \E files \in RunnerFileLists : handleImagesChange(files)
    \/ \E id \in ImageIds(uploadedImages) : handleRemoveImage(id)
    \/ \E id \in ImageIds(uploadedImages) : handleToggleSelection(id)
    \/ \E text \in RunnerPrompts : TypePrompt(text)
    \/ canSubmit /\ SubmitAccepted        \* the Apply button is disabled otherwise
    \/ \E r \in DOMAIN runs, response \in RunnerResponses : EditSettles(r, response)
    \/ \E r \in DOMAIN runs : DataUrlSettles(r, TRUE)
    \/ \E tabName \in RunnerTabs : SetActiveTab(tabName)
    \/ handleClearHistory

SpecRunner == Init /\ [][NextRunner]_vars

----------------------------------------------------------------------------
(* handleSubmit as an operation: called also with its precondition unmet,    *)
(* when the Apply button that calls it is disabled                           *)

\* a blank text and a text that trims to "a" (the initial text is empty)
SubmitPrompts == {<<Space>>, <<"a", Space>>}

NextSubmit ==
    \/ \E files \in RunnerFileLists : handleImagesChange(files)
    \/ \E id \in ImageIds(uploadedImages) : handleToggleSelection(id)
    \/ \E text \in SubmitPrompts : TypePrompt(text)
    \/ SubmitRejected                   \* no control calls it in such a state
    \/ canSubmit /\ SubmitAccepted      \* the Apply button, enabled
    \/ \E r \in DOMAIN runs, response \in RunnerResponses : EditSettles(r, response)
    \/ \E r \in DOMAIN runs : DataUrlSettles(r, TRUE)
    \/ \E tabName \in RunnerTabs : SetActiveTab(tabName)

SpecSubmit == Init /\ [][NextSubmit]_vars

----------------------------------------------------------------------------
(* Claims about the batch job runner *)

IsBlank(text) == \A k \in DOMAIN text : text[k] = Space
IdsOf(images) == [k \in DOMAIN images |-> images[k].id]
KeySeq(map) == [k \in DOMAIN map |-> map[k].key]
Failed(result) == "error" \in DOMAIN result
WellFormedFailure(result) ==
    Failed(result) /\ result.error # "" /\ result.editedUrls = <<>>
WellFormedSuccess(result) == ~ Failed(result) /\ result.editedUrls # <<>>
SuccessIds(map) == KeySeq(SelectSeq(map, LAMBDA e : ~ Failed(e.value)))
\* the step returns from run r's handleSubmit invocation
RunEnds(r) == r \in DOMAIN runs /\ runs' = RemoveAt(runs, r)
\* the step takes run r's loop from item i to the next item, or out of the loop
LeavesItem(r) ==
    \/ RunEnds(r)
    \/ /\ Len(runs') = Len(runs)
       /\ runs'[r].images = runs[r].images
       /\ runs'[r].i = runs[r].i + 1
\* run r's current item has succeeded remotely; its source is being encoded
Succeeded(run) == CurrentCall(run, "dataUrl") \in run.inFlight

\* C5: a batch run started with an instruction that is empty after trimming,
\* or with an empty selection, reports the validation error and changes
\* nothing else: no call, no record, the running flag and the JobResult
\* collection as they were.
C5_InvalidSubmitRejected ==
    [][ ( /\ activeTab = "edit"
          /\ IsBlank(prompt) \/ Range(selectedImageIds) = {}
          /\ handleSubmit )
        => ( /\ error' = ValidationMessage
             /\ UNCHANGED <<runs, history, nextRecordId, loading, editResults,
                            progressMessage, prompt, activeTab, presets,
                            presetError, newPreset>>
             /\ UNCHANGED registryVars ) ]_vars

\* a rejected start after a finished run: the results of that run are still there
C5_Witness ==
    /\ error = ValidationMessage
    /\ editResults # <<>>
    /\ ~ loading
    /\ runs = <<>>
    /\ IsBlank(prompt)

\* C6: a failure never aborts a run. While a run is in progress its results
\* are one well-formed entry per item processed so far, and the records it
\* appended are those of its successful items in completion order; the run
\* returns only after its last item, and the collection it publishes then has
\* exactly one entry per selected item, replacing what was there before.
C6_RunProgress(run) ==
    /\ KeySeq(run.newResults) = SubSeq(IdsOf(run.images), 1, run.i - 1)
    /\ \A k \in DOMAIN run.newResults :
          \/ WellFormedFailure(run.newResults[k].value)
          \/ WellFormedSuccess(run.newResults[k].value)
    /\ run.appended = SuccessIds(run.newResults)

C6_PartialFailureRun ==
    /\ [](\A r \in DOMAIN runs : C6_RunProgress(runs[r]))
    /\ [][\A r \in DOMAIN runs :
            RunEnds(r) =>
                LET run == runs[r]
                    n == Len(run.images)
                IN  /\ run.i = n
                    /\ Len(history') = Len(history) + (IF Succeeded(run) THEN 1 ELSE 0)
                    /\ run.attached =>
                        /\ ~ loading'
                        /\ KeySeq(editResults') = IdsOf(run.images)
                        /\ SubSeq(editResults', 1, n - 1) = run.newResults
                        /\ IF Succeeded(run)
                           THEN WellFormedSuccess(editResults'[n].value)
                           ELSE WellFormedFailure(editResults'[n].value)]_vars

\* three selected items, the first and third succeeded and the second failed:
\* three results and two records
C6_Witness ==
    /\ ~ loading
    /\ MapSize(editResults) = 3
    /\ WellFormedSuccess(editResults[1].value)
    /\ WellFormedFailure(editResults[2].value)
    /\ WellFormedSuccess(editResults[3].value)
    /\ Len(history) = 2
    /\ history[2].inputImages = <<ReaderResult(uploadedImages[1].file, TRUE)>>
    /\ history[1].inputImages = <<ReaderResult(uploadedImages[3].file, TRUE)>>

\* C7: within a run the external calls are issued one at a time in the
\* registry's insertion order (ids are handed out in insertion order): at
\* most one call of the run is in flight, it is the call of the current
\* item, and every earlier item of the run has already been resolved.
C7_OneCallAtATime ==
    \A r \in DOMAIN runs :
        LET run == runs[r]
        IN  /\ \A j, k \in DOMAIN run.images :
                    j < k => run.images[j].id < run.images[k].id
            /\ Cardinality(run.inFlight) <= 1
            /\ \A c \in run.inFlight : c.id = run.images[run.i].id
            /\ \A j \in 1..(run.i - 1) : MapHas(run.newResults, run.images[j].id)

\* items 3 and 1 were selected in that order; the run took item 1 first and
\* has the call of item 3 in flight
C7_Witness ==
    /\ selectedImageIds = <<3, 1>>
    /\ \E r \in DOMAIN runs :
          /\ IdsOf(runs[r].images) = <<1, 3>>
          /\ runs[r].i = 2
          /\ runs[r].inFlight = {[id |-> 3, op |-> "edit"]}

\* C8: the record of an item is appended in the very step in which the item
\* succeeds, before the call of the next item is in flight, whether or not
\* the edit view is still mounted; an item that fails appends nothing.
C8_RecordAppendedOnSuccess ==
    [][\A r \in DOMAIN runs :
          LeavesItem(r) =>
            LET run == runs[r]
                image == run.images[run.i]
            IN  IF Succeeded(run)
                THEN /\ Len(history') = Len(history) + 1
                     /\ SubSeq(history', 2, Len(history')) = history
                     /\ history'[1].type = "edit"
                     /\ history'[1].prompt = run.prompt
                     /\ history'[1].outputImages = run.resultUrls
                     /\ history'[1].inputImages \in
                            {<<ReaderResult(image.file, ok)>> : ok \in BOOLEAN}
                     /\ \A k \in DOMAIN history : history[k].id # history'[1].id
                ELSE history' = history]_vars

\* the view was left during a run; the record of the first item is in the
\* log while the call of the second item is in flight
C8_Witness ==
    /\ activeTab = "history"
    /\ \E r \in DOMAIN runs :
          /\ ~ runs[r].attached
          /\ runs[r].i = 2
          /\ runs[r].appended = <<runs[r].images[1].id>>
          /\ runs[r].inFlight # {}
          /\ Len(history) = 1
          /\ history[1].inputImages = <<ReaderResult(runs[r].images[1].file, TRUE)>>

----------------------------------------------------------------------------
(* The preset store under the preset form, the edit view's Save as Preset
   button and the delete buttons *)

PresetTitles == {<<Space>>, <<"A">>, <<"a">>, <<"B">>, <<"C", Space>>, <<"b", "&", "w">>}
PresetPrompts == {<<Space>>, <<"X">>, <<"Y">>, <<Space, "Z">>}
PresetAnswers == {Null} \cup {Answer(t) : t \in PresetTitles}
PresetTabs == {"edit", "presets"}
\* the delete buttons pressed: that of the newest entry
DeleteButtons == DOMAIN presets \cap {1}

NextPresets ==
    \/ \E value \in PresetTitles : TypeTitle(value)
    \/ \E value \in PresetPrompts : TypeInstructions(value)
    \/ handleAddPreset
    \/ \E k \in DeleteButtons : handleDeletePreset(presets[k])
    \/ \E text \in PresetPrompts : TypePrompt(text)
    \/ \E k \in DOMAIN presets : ApplyPreset(k)
    \/ \E title \in PresetAnswers : handleSaveAsPreset(title)
    \/ \E tabName \in PresetTabs : SetActiveTab(tabName)

SpecPresets == Init /\ [][NextPresets]_vars

SameLetter(c, d) ==
    \/ c = d
    \/ \E k \in DOMAIN UpperCase : {c, d} = {UpperCase[k], LowerCase[k]}
EqualIgnoringCase(s, t) ==
    /\ Len(s) = Len(t)
    /\ \A k \in DOMAIN s : SameLetter(s[k], t[k])
\* t is s without the spaces at its ends
IsTrimOf(t, s) ==
    /\ t # <<>> /\ Head(t) # Space /\ t[Len(t)] # Space
    /\ \E a \in 0..Len(s) :
          /\ a + Len(t) <= Len(s)
          /\ SubSeq(s, a + 1, a + Len(t)) = t
          /\ \A k \in (1..a) \cup ((a + Len(t) + 1)..Len(s)) : s[k] = Space
Stripped(s) ==
    CHOOSE t \in {SubSeq(s, a, b) : a, b \in DOMAIN s} : IsTrimOf(t, s)
PresetAX == [title |-> <<"A">>, prompt |-> <<"X">>]

\* C9: from the seed presets on, whatever is added from the preset form,
\* saved from the edit view or removed, no two entries have titles equal
\* ignoring case and no two have the same instructions; with {A, X} stored,
\* adding {a, Y} is rejected, and so is adding {B, X}.
C9_PresetsUnique ==
    /\ [](\A i, j \in DOMAIN presets :
            i # j => /\ ~ EqualIgnoringCase(presets[i].title, presets[j].title)
                     /\ presets[i].prompt # presets[j].prompt)
    /\ [][ ( /\ handleAddPreset
             /\ \E k \in DOMAIN presets : presets[k] = PresetAX
             /\ newPreset \in {[title |-> <<"a">>, prompt |-> <<"Y">>],
                               [title |-> <<"B">>, prompt |-> <<"X">>]} )
           => (presets' = presets /\ presetError' # "") ]_vars

\* {A, X} was added; adding {B, X} has just been rejected
C9_Witness ==
    /\ presets = <<PresetAX>> \o initialPresets
    /\ newPreset = [title |-> <<"B">>, prompt |-> <<"X">>]
    /\ presetError = PromptExistsMessage

\* C10: the preset form's add is rejected with an error text, the store left
\* as it was, when a field is empty after trimming, when the title equals a
\* stored title ignoring case or when the instructions equal stored
\* instructions; otherwise the trimmed entry becomes the first entry and the
\* previous entries follow unchanged.
C10_AddPreset ==
    [][ handleAddPreset =>
          LET blank == IsBlank(newPreset.title) \/ IsBlank(newPreset.prompt)
              taken == \E k \in DOMAIN presets :
                          \/ EqualIgnoringCase(presets[k].title, Stripped(newPreset.title))
                          \/ presets[k].prompt = Stripped(newPreset.prompt)
          IN  IF blank \/ taken
              THEN /\ presets' = presets
                   /\ presetError' \in {RequiredMessage, TitleExistsMessage,
                                        PromptExistsMessage}
              ELSE /\ Len(presets') = Len(presets) + 1
                   /\ presets'[1] = [title  |-> Stripped(newPreset.title),
                                     prompt |-> Stripped(newPreset.prompt)]
                   /\ SubSeq(presets', 2, Len(presets')) = presets ]_vars

\* the title typed as "C " was stored as "C" in front of the seed presets,
\* and a second add under the title "a" ... was refused for its instructions
C10_Witness ==
    /\ presets = <<[title |-> <<"C">>, prompt |-> <<"Z">>]>> \o initialPresets
    /\ newPreset = [title |-> <<"a">>, prompt |-> <<Space, "Z">>]
    /\ presetError = PromptExistsMessage

----------------------------------------------------------------------------
(* The activity log across sessions: analyses append records, the log is
   cleared, writes to localStorage fail or succeed, the page is reloaded; an
   earlier session may have left a log with the record of an edit. Tabs are
   switched between analyses, not during one. *)

StoreFileLists == {<<[name |-> "a.png", size |-> 1]>>}
StorePrompts == {<<"a">>}
StoreTextResponses == {Rejection, TextResponse(<<"a">>), NoTextResponse}
StoreTabs == {"edit", "vision", "history"}
\* the log an earlier session persisted: one edit whose source could not be read
EarlierLog ==
    StringifyHistory(<<NewHistoryItem(
        EditHistoryArg(<<"a">>, ReaderResult([name |-> "a.png", size |-> 1], FALSE),
                       <<DataUrl("image/png", "d1"), DataUrl("image/png", "d2")>>),
        0, 0)>>)

NextStore ==
    \/ \E files \in StoreFileLists : handleImageChange(files)
    \/ \E text \in StorePrompts : VisionTypePrompt(text)
    \/ canAnalyze /\ VisionSubmitAccepted
    \/ \E v \in DOMAIN visionRuns, response \in StoreTextResponses : GenerateSettles(v, response)
    \/ \E v \in DOMAIN visionRuns : VisionDataUrlSettles(v, TRUE)
    \/ handleClearHistory
    \/ \E tabName \in StoreTabs : visionRuns = <<>> /\ SetActiveTab(tabName)
    \/ \E ok \in BOOLEAN : SetWritable(ok)
    \/ ExternalWrite("history", EarlierLog)
    \/ Reload

SpecStore == Init /\ [][NextStore]_vars

----------------------------------------------------------------------------
(* Loading: other writers leave texts under the two keys and the page is
   reloaded *)

LoadKeys == {"presets", "history"}
\* a log and a preset store as this program persists them
GoodTexts ==
    {EarlierLog,
     StringifyPresets(<<[title |-> <<"A">>, prompt |-> <<"X">>]>>)}
\* no text, the empty string, no JSON, JSON that is no array
BadTexts ==
    {Absent, EmptyText, Garbage, JsonText(JNull), JsonText(JNum(1)),
     JsonText(JStr(<<"a">>)),
     JsonText(JObj(<<Member("title", JStr(<<"A">>)), Member("prompt", JStr(<<"X">>))>>))}
LoadTabs == {"edit", "history"}

NextLoad ==
    \/ \E key \in LoadKeys, text \in GoodTexts \cup BadTexts : ExternalWrite(key, text)
    \/ \E ok \in BOOLEAN : SetWritable(ok)
    \/ \E tabName \in LoadTabs : SetActiveTab(tabName)
    \/ handleClearHistory
    \/ Reload

SpecLoad == Init /\ [][NextLoad]_vars

----------------------------------------------------------------------------
(* Claims about the two stores *)

RecordFields ==
    {"id", "type", "timestamp", "prompt", "inputImages", "outputImages", "outputText"}
\* reading property name of a and of b gives the same: both lack it, or both
\* have it with equal values
SameField(a, b, name) ==
    /\ (name \in DOMAIN a) = (name \in DOMAIN b)
    /\ name \in DOMAIN a => a[name] = b[name]
SameRecord(a, b) == \A name \in RecordFields : SameField(a, b, name)
\* what a fresh session would load is the log now in memory
LoadsBack(saved, items) ==
    LET loaded == LoadHistory(saved)
    IN  /\ Len(loaded) = Len(items)
        /\ \A k \in DOMAIN items : SameRecord(loaded[k], items[k])
\* the step appends one record to the log
AppendsRecord == Len(history') = Len(history) + 1 /\ Tail(history') = history

\* C11 as stated: after any append, what a fresh session loads from the
\* persisted text is the new record, field for field, followed by the
\* previous log.
C11_RoundTrip ==
    [][AppendsRecord => LoadsBack(storage'.history, history')]_vars

\* C11, amended: the same, provided the write of the append to localStorage
\* succeeds.
C11_RoundTripWhenWritten ==
    [][(AppendsRecord /\ writable) => LoadsBack(storage'.history, history')]_vars

\* an analysis without a response text was appended on top of the loaded log
\* of an earlier session and written; a fresh session would load both records
C11_Witness ==
    /\ writable
    /\ Len(history) = 2
    /\ history[1].type = "vision"
    /\ "outputText" \notin DOMAIN history[1]
    /\ history[2].type = "edit"
    /\ history[2].inputImages = <<Null>>
    /\ LoadsBack(storage.history, history)

\* there is no text, or the text is no JSON, or its value is no array
IsNoSequence(saved) ==
    \/ saved.t \in {"absent", "empty", "garbage"}
    \/ saved.t = "json" /\ saved.v.j # "array"

\* C12: a fresh session whose persisted log is absent, unparseable or no
\* sequence starts with the empty log, and one whose persisted presets are
\* absent, unparseable or no sequence starts with the five seed presets.
C12_LoadFallsBack ==
    [][Reload =>
         /\ IsNoSequence(storage.history) => history' = <<>>
         /\ IsNoSequence(storage.presets) =>
               /\ presets' = initialPresets
               /\ Len(presets') = 5]_vars

\* a session started over an object under the history key and no JSON under
\* the presets key (nothing can be written, so both texts are still there)
C12_Witness ==
    /\ ~ writable
    /\ activeTab = "edit"
    /\ storage.history \in BadTexts /\ storage.history.t = "json"
    /\ storage.presets = Garbage
    /\ history = <<>>
    /\ presets = initialPresets

\* C13: a record is in the log only for a remote operation that succeeded:
\* every record of an edit has outputs, and every record of an analysis has
\* a response text that is not empty.
C13_RecordOnlyOnSuccess ==
    \A k \in DOMAIN history :
        /\ history[k].type = "edit" =>
              "outputImages" \in DOMAIN history[k] /\ history[k].outputImages # <<>>
        /\ history[k].type = "vision" =>
              "outputText" \in DOMAIN history[k] /\ history[k].outputText # <<>>

----------------------------------------------------------------------------
(* The activity log of one session: both views append to it, the history    *)
(* view clears it                                                            *)

LogFileLists == {<<[name |-> "a.png", size |-> 1]>>}
LogTabs == {"edit", "vision", "history"}
\* the analysis call rejects, answers with a text
LogTextResponses == {Rejection, TextResponse(<<"a">>)}

\* the edit call rejects, answers with one image
LogEditResponses == {Rejection, Response(<<InlinePart("image/png", "d1")>>)}

NextLog ==
    \/ \E files \in LogFileLists : handleImagesChange(files)
    \/ \E id \in ImageIds(uploadedImages) : handleToggleSelection(id)
    \/ \E text \in RunnerPrompts : TypePrompt(text)
    \/ canSubmit /\ SubmitAccepted
    \/ \E r \in DOMAIN runs, response \in LogEditResponses : EditSettles(r, response)
    \/ \E r \in DOMAIN runs : DataUrlSettles(r, TRUE)
    \/ \E files \in LogFileLists : handleImageChange(files)
    \/ \E text \in StorePrompts : VisionTypePrompt(text)
    \/ canAnalyze /\ VisionSubmitAccepted
    \/ \E v \in DOMAIN visionRuns, response \in LogTextResponses : GenerateSettles(v, response)
    \/ \E v \in DOMAIN visionRuns : VisionDataUrlSettles(v, TRUE)
       \* the analysis view is left when no analysis is in progress
    \/ \E tabName \in LogTabs : visionRuns = <<>> /\ SetActiveTab(tabName)
    \/ handleClearHistory

SpecLog == Init /\ [][NextLog]_vars

\* C14: the log changes only by an append, which puts one new record in
\* front of the unchanged older records in their old order, or by the full
\* clear, which empties it; nothing else changes, reorders or removes a record.
C14_AppendOnlyAtFront ==
    [][history' # history =>
          \/ Len(history') = Len(history) + 1 /\ Tail(history') = history
          \/ handleClearHistory /\ history' = <<>>]_vars

\* a first record was appended, the log was cleared, a second one was appended
C14_Witness ==
    /\ Len(history) = 1
    /\ history[1].id = 2
    /\ nextRecordId = 3

\* C15: while a run of the mounted edit view is in progress, the result of
\* every item the run has completed so far is in the collection the view shows.
C15_PopulatedIncrementally ==
    \A r \in DOMAIN runs :
        runs[r].attached =>
            \A k \in DOMAIN runs[r].newResults :
                \E j \in DOMAIN editResults : editResults[j] = runs[r].newResults[k]

----------------------------------------------------------------------------
(* The results of a batch run and the choice among a result's images         *)

\* two files in one drop
ResultFileLists == {<<[name |-> "a.png", size |-> 1], [name |-> "b.png", size |-> 1]>>}
ResultPrompts == {<<"a">>}
\* the call rejects, answers with text only, answers with two images
ResultResponses == {Rejection, Response(<<TextPart>>),
                    Response(<<InlinePart("image/png", "d1"), TextPart,
                               InlinePart("image/png", "d2")>>)}
\* an image that is none of a result's images
StrayUrl == DataUrl("image/png", "d0")

NextResults ==
    \/ \E files \in ResultFileLists : handleImagesChange(files)
    \/ \E id \in ImageIds(uploadedImages) : handleToggleSelection(id)
    \/ \E text \in ResultPrompts : TypePrompt(text)
    \/ canSubmit /\ SubmitAccepted
    \/ \E r \in DOMAIN runs, response \in ResultResponses : EditSettles(r, response)
    \/ \E r \in DOMAIN runs, readOk \in BOOLEAN : DataUrlSettles(r, readOk)
    \/ \E id \in MapKeys(editResults) : \E img \in Thumbnails(id) :
            handleSelectEditedResultImage(id, img)
       \* no control calls it for an id without a result
    \/ \E id \in ImageIds(uploadedImages) \ MapKeys(editResults) :
            handleSelectEditedResultImage(id, StrayUrl)

SpecResults == Init /\ [][NextResults]_vars

UrlsOf(result) == {result.editedUrls[k] : k \in DOMAIN result.editedUrls}

\* outputs and no failure, or a failure and no outputs; the selected
\* output is none exactly when there are no outputs, and else one of them
WellFormedResult(result) ==
    /\ \/ "error" \notin DOMAIN result /\ result.editedUrls # <<>>
       \/ "error" \in DOMAIN result /\ result.editedUrls = <<>>
    /\ (result.selectedEditedUrl = Null) = (result.editedUrls = <<>>)
    /\ result.editedUrls # <<>> => result.selectedEditedUrl \in UrlsOf(result)

\* the selected output of a result before any selection is its first output
InitiallyFirst(result) ==
    result.editedUrls # <<>> => result.selectedEditedUrl = result.editedUrls[1]

\* C16: every result, shown or still collected by a run, is well formed; a
\* result the run has just stored or published has its first output
\* selected; selecting an output for an id without a result changes nothing.
C16_ResultsWellFormed ==
    /\ [](/\ \A j \in DOMAIN editResults : WellFormedResult(editResults[j].value)
          /\ \A r \in DOMAIN runs : \A k \in DOMAIN runs[r].newResults :
                /\ WellFormedResult(runs[r].newResults[k].value)
                /\ InitiallyFirst(runs[r].newResults[k].value))
    /\ [][/\ (loading /\ ~ loading') =>
                \A j \in DOMAIN editResults' : InitiallyFirst(editResults'[j].value)
          /\ \A id \in 1..(nextId - 1) :
                (~ MapHas(editResults, id) /\ handleSelectEditedResultImage(id, StrayUrl))
                    => editResults' = editResults]_vars

\* a run over two items is over: the first failed, the second has two
\* outputs, of which the user has selected the second
C16_Witness ==
    /\ ~ loading
    /\ Len(editResults) = 2
    /\ "error" \in DOMAIN editResults[1].value
    /\ editResults[1].value.selectedEditedUrl = Null
    /\ Len(editResults[2].value.editedUrls) = 2
    /\ editResults[2].value.selectedEditedUrl = editResults[2].value.editedUrls[2]

----------------------------------------------------------------------------
(* handleToggleSelection as an operation: called with any id, registered or  *)
(* not (the rendered tiles call it with registered ids only)                 *)

\* every id an upload may hand out
ToggleIds == 1..MaxIds

NextToggle ==
    \/ \E files \in FileLists : handleImagesChange(files)
    \/ \E id \in ImageIds(uploadedImages) : handleRemoveImage(id)
    \/ \E id \in ToggleIds : handleToggleSelection(id)
    \/ handleDeselectAll

SpecToggle == Init /\ [][NextToggle]_vars

\* C17: a toggle of an id that is not registered changes neither the
\* selection nor the registry nor the results; a toggle of a registered id
\* changes the membership of that id in the selection and of no other.
C17_ToggleUnknownIsNoOp ==
    [][\A id \in ToggleIds :
          handleToggleSelection(id) =>
              IF id \in ImageIds(uploadedImages)
              THEN /\ SetHas(selectedImageIds', id) = ~ SetHas(selectedImageIds, id)
                   /\ \A other \in ToggleIds \ {id} :
                        SetHas(selectedImageIds', other) = SetHas(selectedImageIds, other)
              ELSE UNCHANGED <<selectedImageIds, uploadedImages, editResults>>]_vars

----------------------------------------------------------------------------
(* The two ways into the preset store compared                               *)

\* labels: blank, two that differ in case only, one to trim
PairTitles == {<<>>, <<Space>>, <<"A">>, <<"a">>, <<"C", Space>>}
\* instructions: blank, plain, one to trim
PairPrompts == {<<>>, <<Space>>, <<"X">>, <<Space, "Z">>}
PairAnswers == {Null} \cup {Answer(t) : t \in PairTitles}

NextPairs ==
    \/ \E value \in PairTitles : TypeTitle(value)
    \/ \E value \in PairPrompts : TypeInstructions(value)
    \/ handleAddPreset
    \/ \E k \in DeleteButtons : handleDeletePreset(presets[k])
    \/ \E text \in PairPrompts : TypePrompt(text)
    \/ \E k \in DOMAIN presets \cap {1} : ApplyPreset(k)
    \/ \E title \in PairAnswers : handleSaveAsPreset(title)
    \/ \E tabName \in PresetTabs : SetActiveTab(tabName)

SpecPairs == Init /\ [][NextPairs]_vars

\* the labels and the instructions of the stored entries
StoredTitles == {presets[k].title : k \in DOMAIN presets}
StoredPrompts == {presets[k].prompt : k \in DOMAIN presets}

\* C18: for every reachable preset store and every pair of a label and an
\* instruction, the add of the preset form and the save of the edit view
\* leave the same store: both leave it unchanged, or both put the same
\* trimmed entry in front; and the two handlers change the store to just that.
C18_SameValidation ==
    /\ [](\A title \in PairTitles \cup StoredTitles,
              text \in PairPrompts \cup StoredPrompts :
            AddPresetStore(presets, title, text)
                = SaveAsPresetStore(presets, Answer(title), text))
    /\ [][/\ handleAddPreset =>
                presets' = SaveAsPresetStore(presets, Answer(newPreset.title),
                                             newPreset.prompt)
          /\ \A title \in PairAnswers \ {Null} :
                handleSaveAsPreset(title) =>
                    presets' = AddPresetStore(presets, title.text, prompt)]_vars

\* the store holds an entry one of the two handlers has trimmed and put in
\* front, and the other handler is about to be given the same pair in
\* another case of letters, which both reject
C18_Witness ==
    /\ Len(presets) = 6
    /\ presets[1] = [title |-> <<"C">>, prompt |-> <<"Z">>]
    /\ AddPresetStore(presets, <<"C", Space>>, <<"X">>) = presets
    /\ activeTab = "edit"
    /\ prompt = <<"X">>

----------------------------------------------------------------------------
(* Batch runs whose files may fail to be read, before the edit call and     *)
(* after it                                                                  *)

NextDrain ==
    \/ \E files \in ResultFileLists : handleImagesChange(files)
    \/ \E id \in ImageIds(uploadedImages) : handleToggleSelection(id)
    \/ \E text \in ResultPrompts : TypePrompt(text)
    \/ canSubmit /\ SubmitAccepted
       \* the file is read and generateContent answers or rejects
    \/ \E r \in DOMAIN runs, response \in RunnerResponses : EditSettles(r, response)
       \* the file cannot be read: fileToGenerativePart's promise stays pending
    \/ \E r \in DOMAIN runs : EditHangs(r)
    \/ \E r \in DOMAIN runs, readOk \in BOOLEAN : DataUrlSettles(r, readOk)
    \/ \E tabName \in RunnerTabs : SetActiveTab(tabName)

SpecDrain == Init /\ [][NextDrain]_vars

\* C19: a run in progress is never stuck: the call it awaits is one that
\* settles, so that the run goes on to its next item or to its end, where
\* the running flag is lowered and the progress message is cleared.
C19_RunNeverStuck ==
    \A r \in DOMAIN runs :
        \E call \in runs[r].inFlight : call.op \in {"edit", "dataUrl"}

----------------------------------------------------------------------------
(* Items removed or deselected while a run that includes them is in progress *)

NextRemoval ==
    \/ \E files \in ResultFileLists : handleImagesChange(files)
    \/ \E id \in ImageIds(uploadedImages) : handleRemoveImage(id)
    \/ \E id \in ImageIds(uploadedImages) : handleToggleSelection(id)
    \/ \E text \in ResultPrompts : TypePrompt(text)
    \/ canSubmit /\ SubmitAccepted
    \/ \E r \in DOMAIN runs, response \in RunnerResponses : EditSettles(r, response)
    \/ \E r \in DOMAIN runs : DataUrlSettles(r, TRUE)

SpecRemoval == Init /\ [][NextRemoval]_vars

\* the items run r has not left yet: its current item and those after it
Pending(run) == {run.images[k] : k \in run.i..Len(run.images)}
\* the handles under which runs in progress hold item id
PendingHandles(id) ==
    {image.url : image \in {im \in UNION {Pending(runs[r]) : r \in DOMAIN runs} : im.id = id}}
\* the step releases every handle in hs
Releases(hs) == \A h \in hs : revoked'[h] > revoked[h]
\* the step is the deselection of a selected item
Deselects(id) == SetHas(selectedImageIds, id) /\ handleToggleSelection(id)

\* a run keeps the items it started with, has the call of its current item
\* in flight until it ends, and publishes one entry per item it started with
RunKeepsItems ==
    \A r \in DOMAIN runs :
        IF RunEnds(r)
        THEN runs[r].attached => KeySeq(editResults') = IdsOf(runs[r].images)
        ELSE Len(runs') >= Len(runs) =>
                /\ runs'[r].images = runs[r].images
                /\ runs'[r].inFlight # {}
                /\ \A c \in runs'[r].inFlight : c.id = runs'[r].images[runs'[r].i].id

\* C20 as stated: the removal and the deselection of an item that a run in
\* progress has not left yet both release the item's handle in that step and
\* leave the run as it is; the run keeps its items, issues their calls and
\* publishes an entry for each.
C20_HandleReleasedOnRemovalOrDeselection ==
    [][/\ \A id \in Ids :
            (PendingHandles(id) # {} /\ (handleRemoveImage(id) \/ Deselects(id)))
                => Releases(PendingHandles(id)) /\ runs' = runs
       /\ RunKeepsItems]_vars

\* C20 with the release on removal only: a deselection leaves every handle
\* as it is.
C20_HandleReleasedOnRemoval ==
    [][/\ \A id \in Ids :
            /\ (PendingHandles(id) # {} /\ handleRemoveImage(id))
                    => Releases(PendingHandles(id)) /\ runs' = runs
            /\ (PendingHandles(id) # {} /\ Deselects(id))
                    => revoked' = revoked /\ runs' = runs
       /\ RunKeepsItems]_vars

\* a run over items 1 and 2 has the call of item 2 in flight; meanwhile item
\* 2 was removed, its handle is released, and item 1 was deselected
C20_Witness ==
    \E r \in DOMAIN runs :
        /\ IdsOf(runs[r].images) = <<1, 2>>
        /\ runs[r].attached
        /\ runs[r].inFlight = {[id |-> 2, op |-> "edit"]}
        /\ 2 \notin ImageIds(uploadedImages)
        /\ revoked[runs[r].images[2].url] > 0
        /\ 1 \in ImageIds(uploadedImages)
        /\ ~ SetHas(selectedImageIds, 1)

----------------------------------------------------------------------------
(* Both stores while localStorage.setItem fails and succeeds: presets are    *)
(* added and removed, analyses append records, the log is cleared            *)

WriteTitles == {<<"A">>}
WriteInstructions == {<<"X">>}
WriteTabs == {"presets", "vision", "history"}

NextWrite ==
    \/ \E value \in WriteTitles : TypeTitle(value)
    \/ \E value \in WriteInstructions : TypeInstructions(value)
    \/ handleAddPreset
    \/ \E k \in DeleteButtons : handleDeletePreset(presets[k])
    \/ \E files \in StoreFileLists : handleImageChange(files)
    \/ \E text \in StorePrompts : VisionTypePrompt(text)
    \/ canAnalyze /\ VisionSubmitAccepted
    \/ \E v \in DOMAIN visionRuns, response \in LogTextResponses : GenerateSettles(v, response)
    \/ \E v \in DOMAIN visionRuns : VisionDataUrlSettles(v, TRUE)
    \/ handleClearHistory
    \/ \E tabName \in WriteTabs : visionRuns = <<>> /\ SetActiveTab(tabName)
    \/ \E ok \in BOOLEAN : SetWritable(ok)

SpecWrite == Init /\ [][NextWrite]_vars

\* C21: while writes to the persistence store fail, the stored texts stay
\* as they are and every mutation still takes effect in memory, on the
\* in-memory state the earlier mutations left, without an error shown: an
\* accepted add puts the trimmed entry in front, a removal takes the entry
\* out, an append puts the record in front, a clear empties the log.
C21_FailedWriteKeepsMutation ==
    [][~ writable =>
          /\ storage' = storage
          /\ handleAddPreset =>
                IF presetError' = ""
                THEN presets' = <<[title |-> Trim(newPreset.title),
                                   prompt |-> Trim(newPreset.prompt)]>> \o presets
                ELSE presets' = presets
          /\ \A k \in DOMAIN presets :
                handleDeletePreset(presets[k]) => presets' = RemoveAt(presets, k)
          /\ \A v \in DOMAIN visionRuns :
                VisionDataUrlSettles(v, TRUE) =>
                    /\ Len(history') = Len(history) + 1
                    /\ Tail(history') = history
                    /\ history'[1].type = "vision"
                    /\ vision'.error = vision.error
          /\ handleClearHistory => history' = <<>>]_vars

\* with failing writes a preset was removed and another added, a record was
\* appended, the log cleared and a further record appended: memory holds all
\* of it, the store still holds what it held before
C21_Witness ==
    /\ ~ writable
    /\ presets = <<[title |-> <<"A">>, prompt |-> <<"X">>]>> \o Tail(initialPresets)
    /\ storage.presets = StringifyPresets(initialPresets)
    /\ Len(history) = 1
    /\ history[1].id = 2
    /\ storage.history = StringifyHistory(<<>>)

\* C22: at most one batch run is in progress, and so at most one edit call
\* is in flight, whatever the user does, tab switches included.
C22_OneRunAtATime ==
    /\ Len(runs) <= 1
    /\ Cardinality(UNION {runs[r].inFlight : r \in DOMAIN runs}) <= 1

\* the ids of the records in the log, in the log's order
RecordIds == [k \in DOMAIN history |-> history[k].id]

\* C23: whichever flows are in progress, an append puts its record, under an
\* id no record in the log has, in front of the log as it is in that very
\* step; the log holds the records of the appends since the last clear, each
\* once, newest first; and only the clear takes records out, all of them.
C23_AppendsNeitherLostNorDuplicated ==
    /\ [](\A k \in DOMAIN history :
            RecordIds[k] = nextRecordId - k)
    /\ [][/\ nextRecordId' # nextRecordId =>
                /\ history' = <<history'[1]>> \o history
                /\ history'[1].id = nextRecordId
          /\ (nextRecordId' = nextRecordId /\ history' # history) =>
                handleClearHistory /\ history' = <<>>]_vars

\* the edit view was left during a run; on the analysis view an analysis
\* appended record 1 and then the run, still in progress, appended record 2
C23_Witness ==
    /\ activeTab = "vision"
    /\ vision.response = [text |-> <<"a">>]
    /\ runs = <<>>
    /\ nextRecordId = 3
    /\ Len(history) = 2
    /\ history[1].type = "edit"
    /\ history[2].type = "vision"

----------------------------------------------------------------------------
(* The preset store restored from what localStorage holds under its key     *)

\* arrays of presets: one entry; two labels that differ in case only; the
\* same instructions under two labels
PresetTexts ==
    {StringifyPresets(<<[title |-> <<"A">>, prompt |-> <<"X">>]>>),
     StringifyPresets(<<[title |-> <<"A">>, prompt |-> <<"X">>],
                        [title |-> <<"a">>, prompt |-> <<"Y">>]>>),
     StringifyPresets(<<[title |-> <<"A">>, prompt |-> <<"X">>],
                        [title |-> <<"B">>, prompt |-> <<"X">>]>>)}

NextRestore ==
    \/ \E text \in PresetTexts \cup BadTexts : ExternalWrite("presets", text)
    \/ \E ok \in BOOLEAN : SetWritable(ok)
    \/ \E value \in WriteTitles : TypeTitle(value)
    \/ \E value \in WriteInstructions : TypeInstructions(value)
    \/ handleAddPreset
    \/ \E k \in DeleteButtons : handleDeletePreset(presets[k])
    \/ \E tabName \in PresetTabs : SetActiveTab(tabName)
    \/ Reload

SpecRestore == Init /\ [][NextRestore]_vars

\* C24: whatever text the store holds under the presets key, the presets a
\* new session starts with have no two labels equal ignoring case and no
\* two equal instructions.
C24_LoadedPresetsUnique ==
    [][Reload =>
          \A i, j \in DOMAIN presets' :
              i # j => /\ ~ EqualIgnoringCase(presets'[i].title, presets'[j].title)
                       /\ presets'[i].prompt # presets'[j].prompt]_vars

====
